---- MODULE Spec2Model ----
(***************************************************************************)
(* Bricksmith: the path parser, reader and writer of src/src/utils.ts and  *)
(* the pipeline of src/src/bricksmith.ts.                                  *)
(*                                                                         *)
(* JavaScript values are modelled over an explicit heap, so that object    *)
(* identity, aliasing and in-place mutation are visible:                   *)
(*   - a string is a sequence of one-character strings;                    *)
(*   - a value is a record tagged by t: "undef", "null", "num", "bool",    *)
(*     "str", or "ref" (a reference to a heap cell);                       *)
(*   - a heap is a sequence of cells, the address of a cell is its index;  *)
(*   - a cell is [arr, len, o]: arr says whether it is an Array, len is    *)
(*     the array length (0 for plain objects) and o maps the own           *)
(*     enumerable property keys (strings) to values.  An array element i   *)
(*     is the property whose key is the decimal string of i; a hole is a   *)
(*     missing key.                                                        *)
(* Operators that allocate return a record [h |-> heap, v |-> value]; an   *)
(* operator that can throw also returns ok |-> BOOLEAN.                    *)
(***************************************************************************)
EXTENDS Integers, Sequences, FiniteSets, TLC

VARIABLES
    heap,       \* the JavaScript heap
    upc,        \* position of the reader/writer scenario
    uobj,       \* the document handed to setValueByPath / getValueByPath
    upath,      \* the path handed to them
    uval,       \* the value handed to setValueByPath
    usnap,      \* snapshot (tree) of uobj taken before the call
    uvsnap,     \* snapshot (tree) of uval taken before the call
    ures,       \* what setValueByPath returned
    uread,      \* what getValueByPath(ures, upath) returned
    parsed,     \* what parsePath(upath) returned
    parsedAgain, \* what a second call parsePath(upath) returned
    pc,         \* position of the pipeline: construction, then inside build
    plugins,    \* this.plugins
    config,     \* this.config.hooks
    input,      \* the caller's document handed to build
    inputSnap,  \* snapshot (tree) of the caller's document at the call
    processedData,  \* build's local processedData
    stepIndex,  \* 1-based position of the for loop over this.plugins
    pluginData, \* applyPlugin's parameter data
    context,    \* applyPlugin's local context
    stepValue,  \* applyPlugin's local transformedValue
    log,        \* the callbacks invoked so far, in order
    entrySnap,  \* snapshots (trees) taken at the entry of applyPlugin: data,
                \* the source value read and its JSON copy
    hist,       \* what each finished applyPlugin call saw and left
    buildResult \* the value build returned

----------------------------------------------------------------------------
(* Values *)

Undef == [t |-> "undef"]
Null == [t |-> "null"]
Num(n) == [t |-> "num", n |-> n]
Bool(b) == [t |-> "bool", b |-> b]
Str(s) == [t |-> "str", s |-> s]
Ref(a) == [t |-> "ref", r |-> a]

\* Number is modelled by the integers plus NaN
NaN == -1

EmptyMap == [k \in {} |-> Undef]
Put(m, k, v) == [x \in (DOMAIN m) \cup {k} |-> IF x = k THEN v ELSE m[x]]
Del(m, k) == [x \in (DOMAIN m) \ {k} |-> m[x]]

ObjCell(m) == [arr |-> FALSE, len |-> 0, o |-> m]
ArrCell(n, m) == [arr |-> TRUE, len |-> n, o |-> m]

R(h, v) == [h |-> h, v |-> v]
Alloc(h, cell) == [h |-> Append(h, cell), v |-> Ref(Len(h) + 1)]

Digits == <<"0", "1", "2", "3", "4", "5", "6", "7", "8", "9">>
IsDigit(c) == \E i \in 1..10 : Digits[i] = c
DigitVal(c) == (CHOOSE i \in 1..10 : Digits[i] = c) - 1

RECURSIVE NumToStr(_)
NumToStr(n) ==
    IF n = NaN THEN <<"N", "a", "N">>
    ELSE IF n < 10 THEN <<Digits[n + 1]>>
    ELSE Append(NumToStr(n \div 10), Digits[(n % 10) + 1])

RECURSIVE StrToNum(_, _)
StrToNum(s, acc) ==
    IF s = <<>> THEN acc
    ELSE IF ~IsDigit(Head(s)) THEN NaN
    ELSE StrToNum(Tail(s), 10 * acc + DigitVal(Head(s)))

LengthKey == <<"l", "e", "n", "g", "t", "h">>

\* the canonical array index a property key denotes, or NaN
KeyIndex(k) ==
    IF k = <<>> \/ (Len(k) > 1 /\ k[1] = "0") THEN NaN ELSE StrToNum(k, 0)

IsArray(h, v) == v.t = "ref" /\ h[v.r].arr
IsObject(h, v) == v.t = "ref" /\ ~h[v.r].arr

\* !v
Falsy(v) ==
    \/ v.t \in {"undef", "null"}
    \/ v.t = "num" /\ v.n \in {0, NaN}
    \/ v.t = "str" /\ v.s = <<>>
    \/ v.t = "bool" /\ ~v.b

\* Object.prototype.hasOwnProperty.call(v, key), v neither null nor undefined
HasOwn(h, v, key) ==
    CASE v.t = "ref" ->
            \/ key \in DOMAIN h[v.r].o
            \/ h[v.r].arr /\ key = LengthKey
      [] v.t = "str" ->
            \/ key = LengthKey
            \/ KeyIndex(key) # NaN /\ KeyIndex(key) < Len(v.s)
      [] OTHER -> FALSE

\* v[key], v neither null nor undefined (inherited members are not modelled)
GetProp(h, v, key) ==
    CASE v.t = "ref" ->
            IF key \in DOMAIN h[v.r].o THEN h[v.r].o[key]
            ELSE IF h[v.r].arr /\ key = LengthKey THEN Num(h[v.r].len)
            ELSE Undef
      [] v.t = "str" ->
            IF key = LengthKey THEN Num(Len(v.s))
            ELSE IF KeyIndex(key) # NaN /\ KeyIndex(key) < Len(v.s)
                 THEN Str(<<v.s[KeyIndex(key) + 1]>>)
            ELSE Undef
      [] OTHER -> Undef

\* cell[key] = v on an object or array cell
SetProp(cell, key, v) ==
    [cell EXCEPT !.o = Put(cell.o, key, v),
                 !.len = IF cell.arr /\ KeyIndex(key) # NaN /\ KeyIndex(key) >= cell.len
                         THEN KeyIndex(key) + 1 ELSE cell.len]

\* the keys of the elements 0..len-1 an array cell really holds (holes left out)
ElemKeys(cell) == {k \in DOMAIN cell.o : KeyIndex(k) # NaN /\ KeyIndex(k) < cell.len}

\* the tree a value denotes: deep equality is equality of trees
RECURSIVE Tree(_, _)
Tree(h, v) ==
    IF v.t # "ref" THEN v
    ELSE [t |-> IF h[v.r].arr THEN "arr" ELSE "obj",
          len |-> h[v.r].len,
          o |-> [k \in DOMAIN h[v.r].o |-> Tree(h, h[v.r].o[k])]]

\* the cells reachable from a value
RECURSIVE Reach(_, _)
Reach(h, v) ==
    IF v.t # "ref" THEN {}
    ELSE {v.r} \cup UNION {Reach(h, h[v.r].o[k]) : k \in DOMAIN h[v.r].o}

----------------------------------------------------------------------------
(* utils.ts: the path parser *)

\* a parser without the switch of line 24
isEscapedNever(path) == FALSE

\* path.includes('\\.')
isEscapedPath(path) ==
    \E i \in 1..(Len(path) - 1) : path[i] = "\\" /\ path[i + 1] = "."

\* path.replace(/\\\./g, '.')
RECURSIVE unescapeDots(_)
unescapeDots(path) ==
    IF path = <<>> THEN <<>>
    ELSE IF Len(path) >= 2 /\ path[1] = "\\" /\ path[2] = "."
         THEN <<".">> \o unescapeDots(SubSeq(path, 3, Len(path)))
    ELSE <<path[1]>> \o unescapeDots(Tail(path))

\* the push without its guard
pushPartAlways(parts, currentPart) == Append(parts, currentPart)

\* parts.push(currentPart) guarded by if (currentPart)
pushPart(parts, currentPart) ==
    IF currentPart # <<>> THEN Append(parts, currentPart) ELSE parts

\* the for loop of parsePath; i is the 1-based position of char
RECURSIVE parseLoop(_, _, _, _, _)
parseLoop(path, i, parts, currentPart, inBrackets) ==
    IF i > Len(path) THEN pushPart(parts, currentPart)
    ELSE IF path[i] = "\\" /\ i + 1 <= Len(path) /\ path[i + 1] = "."
         THEN parseLoop(path, i + 2, parts, Append(currentPart, "."), inBrackets)
    ELSE IF path[i] = "[" /\ ~inBrackets
         THEN parseLoop(path, i + 1, pushPart(parts, currentPart), <<"[">>, TRUE)
    ELSE IF path[i] = "]" /\ inBrackets
         THEN parseLoop(path, i + 1, Append(parts, Append(currentPart, "]")), <<>>, FALSE)
    ELSE IF path[i] = "." /\ ~inBrackets
         THEN parseLoop(path, i + 1, pushPart(parts, currentPart), <<>>, inBrackets)
    ELSE parseLoop(path, i + 1, parts, Append(currentPart, path[i]), inBrackets)

parsePath(path) ==
    IF path = <<>> THEN <<>>
    ELSE IF isEscapedPath(path) THEN <<unescapeDots(path)>>
    ELSE parseLoop(path, 1, <<>>, <<>>, FALSE)

isArrayWildcard(part) == part = <<"[", "*", "]">> \/ part = <<"*">>

isObjectWildcard(part) == part = <<".", "*", ".">> \/ part = <<"*">>

isArrayIndex(part) == part # <<>> /\ part[1] = "[" /\ part[Len(part)] = "]"

\* Number(part.slice(1, -1)); Number('') is 0
getArrayIndex(part) ==
    IF Len(part) < 2 THEN 0 ELSE StrToNum(SubSeq(part, 2, Len(part) - 1), 0)

\* only the next part instead of the joined rest
joinFirst(parts) == IF parts = <<>> THEN <<>> ELSE parts[1]

\* parts.join('.')
RECURSIVE joinDots(_)
joinDots(parts) ==
    IF parts = <<>> THEN <<>>
    ELSE IF Len(parts) = 1 THEN parts[1]
    ELSE parts[1] \o <<".">> \o joinDots(Tail(parts))

----------------------------------------------------------------------------
(* utils.ts: deepClone *)

RECURSIVE deepClone(_, _)
RECURSIVE cloneProps(_, _, _, _)

\* the copies of the properties keys of map src, added to acc
cloneProps(h, src, keys, acc) ==
    IF keys = {} THEN [h |-> h, o |-> acc]
    ELSE LET k == CHOOSE x \in keys : TRUE
             c == deepClone(h, src[k])
         IN cloneProps(c.h, src, keys \ {k}, Put(acc, k, c.v))

cloneShared(h, v) == R(h, v)

deepClone(h, v) ==
    IF v.t # "ref" THEN R(h, v)
    ELSE IF h[v.r].arr
         THEN LET c == cloneProps(h, h[v.r].o, ElemKeys(h[v.r]), EmptyMap)
              IN Alloc(c.h, ArrCell(h[v.r].len, c.o))
    ELSE LET c == cloneProps(h, h[v.r].o, DOMAIN h[v.r].o, EmptyMap)
         IN Alloc(c.h, ObjCell(c.o))

----------------------------------------------------------------------------
(* utils.ts: the reader *)

RECURSIVE getValueByPath(_, _, _)
RECURSIVE getWalk(_, _, _, _)
RECURSIVE getMap(_, _, _, _, _)

\* current.map(item => getValueByPath(item, nextPath)) and the for-in loop of
\* the object wildcard: the reads of the properties keys of map src
getMap(h, src, keys, nextPath, acc) ==
    IF keys = {} THEN [h |-> h, o |-> acc]
    ELSE LET k == CHOOSE x \in keys : TRUE
             g == getValueByPath(h, src[k], nextPath)
         IN getMap(g.h, src, keys \ {k}, nextPath, Put(acc, k, g.v))

\* the for loop of getValueByPath; i is the 1-based position of part
getWalk(h, current, parts, i) ==
    IF i > Len(parts) THEN R(h, current)
    ELSE IF current.t \in {"null", "undef"} THEN R(h, Undef)
    ELSE IF isArrayWildcard(parts[i])
         THEN IF IsArray(h, current)
              THEN IF i = Len(parts) THEN R(h, current)
                   ELSE LET m == getMap(h, h[current.r].o, ElemKeys(h[current.r]),
                                        joinDots(SubSeq(parts, i + 1, Len(parts))),
                                        EmptyMap)
                        IN Alloc(m.h, ArrCell(h[current.r].len, m.o))
              ELSE R(h, Undef)
    ELSE IF isObjectWildcard(parts[i])
         THEN IF IsObject(h, current)
              THEN IF i = Len(parts) THEN R(h, current)
                   ELSE LET m == getMap(h, h[current.r].o, DOMAIN h[current.r].o,
                                        joinDots(SubSeq(parts, i + 1, Len(parts))),
                                        EmptyMap)
                        IN Alloc(m.h, ObjCell(m.o))
              ELSE R(h, Undef)
    ELSE IF isArrayIndex(parts[i])
         THEN IF IsArray(h, current)
              THEN getWalk(h, GetProp(h, current, NumToStr(getArrayIndex(parts[i]))),
                           parts, i + 1)
              ELSE R(h, Undef)
    ELSE getWalk(h, GetProp(h, current, parts[i]), parts, i + 1)

getValueByPath(h, obj, path) ==
    IF Falsy(obj) \/ path = <<>> THEN R(h, Undef)
    ELSE IF HasOwn(h, obj, path) THEN R(h, GetProp(h, obj, path))
    ELSE getWalk(h, obj, parsePath(path), 1)

----------------------------------------------------------------------------
(* utils.ts: the writer *)

\* [] or {} by the one-segment lookahead
freshFor(h, nextPart) ==
    IF isArrayIndex(nextPart) \/ isArrayWildcard(nextPart)
    THEN Alloc(h, ArrCell(0, EmptyMap))
    ELSE Alloc(h, ObjCell(EmptyMap))

\* a copy that starts from no element
spreadNothing(cell) == EmptyMap

\* [...obj]: the elements 0..len-1 of an array cell, holes read as undefined
spreadArray(cell) ==
    [k \in {NumToStr(i) : i \in 0..(cell.len - 1)} |->
        IF k \in DOMAIN cell.o THEN cell.o[k] ELSE Undef]

\* while (newArray.length <= arrIndex) newArray.push(undefined)
padArray(cell, arrIndex) ==
    IF arrIndex = NaN \/ cell.len > arrIndex THEN cell
    ELSE ArrCell(arrIndex + 1,
                 [k \in (DOMAIN cell.o) \cup {NumToStr(i) : i \in cell.len..arrIndex} |->
                     IF k \in DOMAIN cell.o THEN cell.o[k] ELSE Undef])

RECURSIVE setValueRecursively(_, _, _, _, _)
RECURSIVE setMapClone(_, _, _, _)
RECURSIVE setMapRec(_, _, _, _, _, _, _)

\* one deepClone(value) per property in keys
setMapClone(h, keys, value, acc) ==
    IF keys = {} THEN [h |-> h, o |-> acc]
    ELSE LET k == CHOOSE x \in keys : TRUE
             c == deepClone(h, value)
         IN setMapClone(c.h, keys \ {k}, value, Put(acc, k, c.v))

\* the properties left as they are
setMapRecKept(h, src, keys, parts, value, index, acc) ==
    [h |-> h, o |-> [k \in keys \cup DOMAIN acc |-> IF k \in keys THEN src[k] ELSE acc[k]]]

\* setValueRecursively(item, parts, value, index + 1) for the properties keys of src
setMapRec(h, src, keys, parts, value, index, acc) ==
    IF keys = {} THEN [h |-> h, o |-> acc]
    ELSE LET k == CHOOSE x \in keys : TRUE
             c == setValueRecursively(h, src[k], parts, value, index)
         IN setMapRec(c.h, src, keys \ {k}, parts, value, index, Put(acc, k, c.v))

\* the index branch, newArray being the copied or fresh array cell, padded
setAtIndex(h, newArray, parts, value, index) ==
    LET key == NumToStr(getArrayIndex(parts[index]))
        old == IF key \in DOMAIN newArray.o THEN newArray.o[key] ELSE Undef
    IN IF index = Len(parts) THEN Alloc(h, SetProp(newArray, key, value))
       ELSE LET f == IF old = Undef THEN freshFor(h, parts[index + 1]) ELSE R(h, old)
                c == setValueRecursively(f.h, f.v, parts, value, index + 1)
            IN Alloc(c.h, SetProp(newArray, key, c.v))

\* a fresh array that is padded and returned without the value
setAtFreshNothing(h, newArray, parts, value, index) == Alloc(h, newArray)

\* the non-array index branch always starts from a fresh container
setAtFreshIndex(h, newArray, parts, value, index) ==
    LET key == NumToStr(getArrayIndex(parts[index]))
    IN IF index = Len(parts) THEN Alloc(h, SetProp(newArray, key, value))
       ELSE LET f == freshFor(h, parts[index + 1])
                c == setValueRecursively(f.h, f.v, parts, value, index + 1)
            IN Alloc(c.h, SetProp(newArray, key, c.v))

\* the regular property branch, newObj being {} or {...obj}
setAtKey(h, newObj, parts, value, index) ==
    LET key == parts[index]
        old == IF key \in DOMAIN newObj.o THEN newObj.o[key] ELSE Undef
    IN IF index = Len(parts) THEN Alloc(h, SetProp(newObj, key, value))
       ELSE LET f == IF old = Undef THEN freshFor(h, parts[index + 1]) ELSE R(h, old)
                c == setValueRecursively(f.h, f.v, parts, value, index + 1)
            IN Alloc(c.h, SetProp(newObj, key, c.v))

\* index is the 1-based position of part
setValueRecursively(h, obj, parts, value, index) ==
    IF index > Len(parts) THEN R(h, value)
    ELSE IF isArrayWildcard(parts[index])
         THEN IF IsArray(h, obj)
              THEN IF index = Len(parts)
                   THEN LET m == setMapClone(h, ElemKeys(h[obj.r]), value, EmptyMap)
                        IN Alloc(m.h, ArrCell(h[obj.r].len, m.o))
                   ELSE LET m == setMapRec(h, h[obj.r].o, ElemKeys(h[obj.r]), parts,
                                           value, index + 1, EmptyMap)
                        IN Alloc(m.h, ArrCell(h[obj.r].len, m.o))
              ELSE R(h, obj)
    ELSE IF isObjectWildcard(parts[index])
         THEN IF obj.t = "null" \/ IsObject(h, obj)
              THEN LET src == IF obj.t = "null" THEN EmptyMap ELSE h[obj.r].o
                   IN IF index = Len(parts)
                      THEN LET m == setMapClone(h, DOMAIN src, value, EmptyMap)
                           IN Alloc(m.h, ObjCell(m.o))
                      ELSE LET m == setMapRec(h, src, DOMAIN src, parts, value,
                                              index + 1, EmptyMap)
                           IN Alloc(m.h, ObjCell(m.o))
              ELSE R(h, obj)
    ELSE IF isArrayIndex(parts[index])
         THEN IF IsArray(h, obj)
              THEN setAtIndex(h, padArray(ArrCell(h[obj.r].len, spreadArray(h[obj.r])),
                                          getArrayIndex(parts[index])),
                              parts, value, index)
              ELSE setAtFreshIndex(h, padArray(ArrCell(0, EmptyMap),
                                               getArrayIndex(parts[index])),
                                   parts, value, index)
    ELSE setAtKey(h, IF obj.t = "ref" THEN ObjCell(h[obj.r].o) ELSE ObjCell(EmptyMap),
                  parts, value, index)

\* result[path] = value on the cell result refers to
assignKey(h, result, path, value) ==
    [h EXCEPT ![result.r] = SetProp(h[result.r], path, value)]

\* the fast path forgetting the assignment
setDirectKeyDropped(h, obj, result, path, value) == R(h, result)

\* the direct-key fast path: result[path] = value; return result
setDirectKey(h, obj, result, path, value) ==
    R(assignKey(h, result, path, value), result)

setValueByPath(h, obj, path, value) ==
    IF Falsy(obj) \/ path = <<>> THEN R(h, obj)
    ELSE LET result == deepClone(h, obj)
         IN IF HasOwn(h, obj, path)
            THEN setDirectKey(result.h, obj, result.v, path, value)
            ELSE IF Len(parsePath(path)) = 0 THEN result
            ELSE setValueRecursively(result.h, result.v, parsePath(path), value, 1)

----------------------------------------------------------------------------
(* Documents written as trees, and their construction on the heap *)

TObj(m) == [t |-> "obj", len |-> 0, o |-> m]
TArr(s) ==
    [t |-> "arr", len |-> Len(s),
     o |-> [k \in {NumToStr(i - 1) : i \in 1..Len(s)} |-> s[KeyIndex(k) + 1]]]

RECURSIVE Make(_, _)
RECURSIVE makeProps(_, _, _, _)

makeProps(h, src, keys, acc) ==
    IF keys = {} THEN [h |-> h, o |-> acc]
    ELSE LET k == CHOOSE x \in keys : TRUE
             c == Make(h, src[k])
         IN makeProps(c.h, src, keys \ {k}, Put(acc, k, c.v))

\* the value whose tree is tr, freshly allocated
Make(h, tr) ==
    IF tr.t \notin {"obj", "arr"} THEN R(h, tr)
    ELSE LET c == makeProps(h, tr.o, DOMAIN tr.o, EmptyMap)
         IN Alloc(c.h, [arr |-> tr.t = "arr", len |-> tr.len, o |-> c.o])

ka == <<"a">>
kb == <<"b">>
kc == <<"c">>
kab == <<"a", ".", "b">>

----------------------------------------------------------------------------
(* bricksmith.ts: the steps of applyPlugin *)

RECURSIVE jsonClone(_, _)
RECURSIVE jsonProps(_, _, _, _)

jsonProps(h, src, keys, acc) ==
    IF keys = {} THEN [h |-> h, o |-> acc]
    ELSE LET k == CHOOSE x \in keys : TRUE
             c == jsonClone(h, src[k])
         IN jsonProps(c.h, src, keys \ {k}, Put(acc, k, c.v))

\* JSON.parse(JSON.stringify(v)) of a value inside a document or of a document
\* that is not undefined: array slots that are holes or undefined become
\* null, object keys whose value is undefined are dropped, NaN becomes null
jsonClone(h, v) ==
    IF v.t = "undef" THEN R(h, Null)
    ELSE IF v.t = "num" /\ v.n = NaN THEN R(h, Null)
    ELSE IF v.t # "ref" THEN R(h, v)
    ELSE IF h[v.r].arr
         THEN LET c == jsonProps(h, spreadArray(h[v.r]),
                                 DOMAIN spreadArray(h[v.r]), EmptyMap)
              IN Alloc(c.h, ArrCell(h[v.r].len, c.o))
    ELSE LET keep == {k \in DOMAIN h[v.r].o : h[v.r].o[k] # Undef}
             c == jsonProps(h, h[v.r].o, keep, EmptyMap)
         IN Alloc(c.h, ObjCell(c.o))

\* the loop "Navigate to parent object": the parent reached, a break leaving
\* the container reached so far
RECURSIVE walkToParent(_, _, _, _)
walkToParent(h, parent, parentParts, n) ==
    IF n > Len(parentParts) THEN parent
    ELSE IF isArrayIndex(parentParts[n])
         THEN IF /\ IsArray(h, parent)
                 /\ getArrayIndex(parentParts[n]) >= 0
                 /\ getArrayIndex(parentParts[n]) < h[parent.r].len
              THEN walkToParent(h, GetProp(h, parent,
                                           NumToStr(getArrayIndex(parentParts[n]))),
                                parentParts, n + 1)
              ELSE parent
    ELSE IF parent.t = "ref"
         THEN walkToParent(h, GetProp(h, parent, parentParts[n]), parentParts, n + 1)
    ELSE parent

\* parent.splice(index, 1) on an array cell, 0 <= index < length
splice(cell, index) ==
    LET moved(k) == IF KeyIndex(k) # NaN /\ KeyIndex(k) > index /\ KeyIndex(k) < cell.len
                    THEN NumToStr(KeyIndex(k) - 1) ELSE k
        kept == {k \in DOMAIN cell.o : KeyIndex(k) # index}
    IN ArrCell(cell.len - 1,
               [k \in {moved(x) : x \in kept} |->
                   cell.o[CHOOSE x \in kept : moved(x) = k]])

\* "Remove value depending on the type of parent object and last part"
removeAt(h, parent, lastPart) ==
    IF parent.t # "ref" THEN h
    ELSE IF isArrayIndex(lastPart) /\ IsArray(h, parent)
         THEN IF getArrayIndex(lastPart) >= 0 /\ getArrayIndex(lastPart) < h[parent.r].len
              THEN [h EXCEPT ![parent.r] = splice(h[parent.r], getArrayIndex(lastPart))]
              ELSE h
    ELSE IF ~IsArray(h, parent)
         THEN [h EXCEPT ![parent.r].o = Del(h[parent.r].o, lastPart)]
    ELSE h

\* the removal of the source value from updatedData, in place
removeSource(h, updatedData, sourcePath) ==
    LET parts == parsePath(sourcePath)
    IN IF Len(parts) > 0
       THEN removeAt(h, walkToParent(h, updatedData, SubSeq(parts, 1, Len(parts) - 1), 1),
                     parts[Len(parts)])
       ELSE h

removeNever(plugin) == FALSE

removeAlways(plugin) == plugin.source # plugin.target

\* String(plugin.source) !== String(plugin.target) && !plugin.keepSource
mustRemove(plugin) == plugin.source # plugin.target /\ ~plugin.keepSource

\* "Copy properties from updatedData to data": every own key of data is
\* deleted, then every own key of updatedData is assigned
RECURSIVE assignAll(_, _, _)
assignAll(cell, src, keys) ==
    IF keys = {} THEN cell
    ELSE LET k == CHOOSE x \in keys : TRUE
         IN assignAll(SetProp(cell, k, src[k]), src, keys \ {k})

copyBack(h, data, updatedData) ==
    [h EXCEPT ![data.r] = assignAll([h[data.r] EXCEPT !.o = EmptyMap],
                                    h[updatedData.r].o, DOMAIN h[updatedData.r].o)]

\* an applyPlugin that writes nothing
writeStepNothing(h, plugin, data, transformedValue) == h

\* lines 227-285: updatedData is built, written, pruned and copied into data
writeStep(h, plugin, data, transformedValue) ==
    LET j == jsonClone(h, data)
        w == setValueByPath(j.h, j.v, plugin.target, transformedValue)
        h2 == IF mustRemove(plugin) THEN removeSource(w.h, w.v, plugin.source) ELSE w.h
    IN copyBack(h2, data, w.v)

----------------------------------------------------------------------------
(* The callbacks a caller supplies.  A callback is named by its kind; it    *)
(* never mutates its arguments.                                            *)

kz == <<"z">>

\* a transformation that sets data.z before it throws
callTransformDirty(h, kind, ctx) ==
    CASE kind = "id" -> [ok |-> TRUE, h |-> h, v |-> ctx.sourceValue]
      [] kind = "const" -> [ok |-> TRUE, h |-> h, v |-> Num(7)]
      [] kind = "obj" ->
            LET a == Alloc(h, ObjCell((kb :> Num(1)) @@ (kc :> Num(2))))
            IN [ok |-> TRUE, h |-> a.h, v |-> a.v]
      [] kind = "throw" ->
            [ok |-> FALSE, v |-> Undef,
             h |-> IF ctx.data.t = "ref"
                   THEN [h EXCEPT ![ctx.data.r] = SetProp(@, kz, Num(1))]
                   ELSE h]

\* plugin.transform(context)
callTransform(h, kind, ctx) ==
    CASE kind = "id" -> [ok |-> TRUE, h |-> h, v |-> ctx.sourceValue]
      [] kind = "const" -> [ok |-> TRUE, h |-> h, v |-> Num(7)]
      [] kind = "obj" ->
            LET a == Alloc(h, ObjCell((kb :> Num(1)) @@ (kc :> Num(2))))
            IN [ok |-> TRUE, h |-> a.h, v |-> a.v]
      [] kind = "throw" -> [ok |-> FALSE, h |-> h, v |-> Undef]

\* plugin.hooks.before(context)
callBefore(h, kind, ctx) ==
    CASE kind = "same" -> [ok |-> TRUE, h |-> h, v |-> ctx]
      [] kind = "set" -> [ok |-> TRUE, h |-> h, v |-> [ctx EXCEPT !.sourceValue = Num(9)]]
      [] kind = "throw" -> [ok |-> FALSE, h |-> h, v |-> ctx]

\* plugin.hooks.after(context, transformedValue)
callAfter(h, kind, ctx, value) ==
    CASE kind = "same" -> [ok |-> TRUE, h |-> h, v |-> value]
      [] kind = "wrap" ->
            LET a == Alloc(h, ArrCell(1, (<<"0">> :> value)))
            IN [ok |-> TRUE, h |-> a.h, v |-> a.v]
      [] kind = "throw" -> [ok |-> FALSE, h |-> h, v |-> Undef]

\* config.hooks.beforeBuild(data, plugins) and afterBuild(data, plugins)
callGlobal(h, kind, d) ==
    CASE kind = "same" -> [ok |-> TRUE, h |-> h, v |-> d]
      [] kind = "extend" ->
            IF d.t # "ref" THEN [ok |-> TRUE, h |-> h, v |-> d]
            ELSE LET a == Alloc(h, ObjCell(Put(h[d.r].o, kz, Num(1))))
                 IN [ok |-> TRUE, h |-> a.h, v |-> a.v]
      [] kind = "throw" -> [ok |-> FALSE, h |-> h, v |-> Undef]

----------------------------------------------------------------------------
(* Bounds and inputs *)

\* the number of plugins a pipeline registers at most
MaxSteps == 2

ke == <<"e">>
km == <<"m">>
kn == <<"n">>
ku == <<"u">>
pab == <<"a", ".", "b">>
puce == <<"u", ".", "c", ".", "e">>
pun == <<"u", ".", "n">>
pa0 == <<"a", "[", "0", "]">>
paDot0 == <<"a", ".", "0">>
pDot == <<".">>

Plugin(source, target, keepSource, transform, before, after) ==
    [source |-> source, target |-> target, keepSource |-> keepSource,
     transform |-> transform, before |-> before, after |-> after]

\* the plugins handed to brick(); <<>> as target is a plugin without target
PluginInputs ==
    { Plugin(ka, kb, FALSE, "id", "none", "none"),
      Plugin(ka, kb, TRUE, "id", "none", "none"),
      Plugin(ka, <<>>, FALSE, "const", "same", "same"),
      Plugin(puce, pun, FALSE, "const", "none", "none"),
      Plugin(km, kb, FALSE, "const", "same", "same"),
      Plugin(ka, kb, FALSE, "throw", "none", "none"),
      Plugin(ka, kb, FALSE, "const", "throw", "none"),
      Plugin(ka, kb, FALSE, "const", "none", "throw"),
      Plugin(pab, ka, FALSE, "obj", "none", "none"),
      Plugin(kb, kc, FALSE, "id", "set", "wrap"),
      Plugin(pa0, kb, FALSE, "id", "none", "none"),
      Plugin(paDot0, kb, FALSE, "id", "none", "none"),
      Plugin(ka, pab, TRUE, "const", "none", "none"),
      Plugin(pDot, <<>>, FALSE, "const", "none", "none"),
      Plugin(<<>>, kb, FALSE, "id", "none", "none") }

\* the hooks handed to the constructor
Configs ==
    { [beforeBuild |-> "none", afterBuild |-> "none"],
      [beforeBuild |-> "same", afterBuild |-> "extend"],
      [beforeBuild |-> "throw", afterBuild |-> "extend"],
      [beforeBuild |-> "none", afterBuild |-> "throw"] }

\* the documents handed to build()
PipeDocs ==
    { TObj((ka :> Num(1)) @@ (ku :> TObj(kc :> TObj(ke :> Str(<<"x">>))))),
      TObj((ka :> TObj((kb :> Num(1)) @@ (kc :> Num(2)))) @@ (pab :> Num(3))),
      TObj((ka :> TArr(<<Num(1), Undef, Num(3)>>)) @@ (kb :> Null)),
      TArr(<<Num(1), TObj(ka :> Num(2))>>) }

----------------------------------------------------------------------------
(* bricksmith.ts: the pipeline *)

vars == <<heap, upc, uobj, upath, uval, usnap, uvsnap, ures, uread, parsed, parsedAgain,
          pc, plugins, config, input, inputSnap, processedData, stepIndex,
          pluginData, context, stepValue, log, entrySnap, hist, buildResult>>

utilVars == <<upc, uobj, upath, uval, usnap, uvsnap, ures, uread, parsed, parsedAgain>>

NoContext ==
    [data |-> Undef, source |-> <<>>, sourceValue |-> Undef,
     target |-> <<>>, targetValue |-> Undef]

Event(ev, step) == [ev |-> ev, step |-> step]

\* what a finished applyPlugin call is remembered by: the document before
\* and after, the value written, what the target and the source read after
Finished(h, outcome, value, readback, sourceAfter) ==
    [step |-> stepIndex, outcome |-> outcome, pre |-> entrySnap.doc,
     post |-> Tree(h, pluginData), value |-> value, readback |-> readback,
     sourceBefore |-> entrySnap.sourceValue, sourceCopy |-> entrySnap.sourceCopy,
     sourceAfter |-> sourceAfter]

\* brick(plugin): a plugin without a source is rejected, a missing target
\* defaults to the source
Brick(plugin) ==
    /\ pc = "construct"
    /\ Len(plugins) < MaxSteps
    /\ IF plugin.source = <<>>
       THEN /\ pc' = "rejected"
            /\ UNCHANGED plugins
       ELSE /\ plugins' = Append(plugins,
                    [plugin EXCEPT !.target = IF plugin.target = <<>>
                                              THEN plugin.source ELSE plugin.target])
            /\ UNCHANGED pc
    /\ UNCHANGED <<heap, utilVars, config, input, inputSnap, processedData, stepIndex,
                   pluginData, context, stepValue, log, entrySnap, hist, buildResult>>

\* build(data), line 149: the document is cloned
Build(doc) ==
    /\ pc = "construct"
    /\ LET m == Make(heap, doc)
           c == deepClone(m.h, m.v)
       IN /\ heap' = c.h
          /\ input' = m.v
          /\ inputSnap' = Tree(m.h, m.v)
          /\ processedData' = c.v
    /\ pc' = "beforeBuild"
    /\ UNCHANGED <<utilVars, plugins, config, stepIndex, pluginData, context,
                   stepValue, log, entrySnap, hist, buildResult>>

\* build, lines 151-154: the global beforeBuild hook
BeforeBuild ==
    /\ pc = "beforeBuild"
    /\ IF config.beforeBuild = "none"
       THEN /\ pc' = "loop"
            /\ UNCHANGED <<heap, processedData, log>>
       ELSE LET r == callGlobal(heap, config.beforeBuild, processedData)
            IN /\ log' = Append(log, Event("beforeBuild", 0))
               /\ heap' = r.h
               /\ IF r.ok
                  THEN /\ processedData' = r.v
                       /\ pc' = "loop"
                  ELSE /\ pc' = "thrown"
                       /\ UNCHANGED processedData
    /\ stepIndex' = 1
    /\ UNCHANGED <<utilVars, plugins, config, input, inputSnap, pluginData, context,
                   stepValue, entrySnap, hist, buildResult>>

\* a copy of the working document for each step
pluginArgumentCloned(h, d) == deepClone(h, d)

\* the object build hands to applyPlugin: processedData itself
pluginArgument(h, d) == R(h, d)

sourceMissingNever(sourceValue) == FALSE

\* line 207: context.sourceValue === undefined
sourceMissing(sourceValue) == sourceValue = Undef

\* applyPlugin, lines 184-210: the reads, the context, the skip of a step
\* whose source value is undefined
StepRead ==
    /\ pc = "loop"
    /\ stepIndex <= Len(plugins)
    /\ LET plugin == plugins[stepIndex]
           arg == pluginArgument(heap, processedData)
           s == getValueByPath(arg.h, arg.v, plugin.source)
           t == getValueByPath(s.h, arg.v, plugin.target)
       IN /\ heap' = t.h
          /\ pluginData' = arg.v
          /\ entrySnap' = [doc |-> Tree(heap, processedData),
                           sourceValue |-> Tree(t.h, s.v),
                           sourceCopy |-> Tree(jsonClone(t.h, s.v).h,
                                               jsonClone(t.h, s.v).v)]
          /\ context' = [data |-> arg.v, source |-> plugin.source, sourceValue |-> s.v,
                         target |-> plugin.target, targetValue |-> t.v]
          /\ IF sourceMissing(s.v)
             THEN /\ hist' = Append(hist, [step |-> stepIndex, outcome |-> "skipped",
                                           pre |-> Tree(heap, processedData),
                                           post |-> Tree(t.h, arg.v),
                                           value |-> Undef, readback |-> Undef,
                                           sourceBefore |-> Tree(t.h, s.v),
                                           sourceCopy |-> Undef,
                                           sourceAfter |-> Undef])
                  /\ stepIndex' = stepIndex + 1
                  /\ pc' = "loop"
             ELSE /\ pc' = "before"
                  /\ UNCHANGED <<hist, stepIndex>>
    /\ UNCHANGED <<utilVars, plugins, config, input, inputSnap, processedData,
                   stepValue, log, buildResult>>

\* the catch block of applyPlugin: the step is abandoned
Abandon(h) ==
    /\ hist' = Append(hist, Finished(h, "failed", Undef, Undef, Undef))
    /\ stepIndex' = stepIndex + 1
    /\ pc' = "loop"

\* applyPlugin, lines 212-215: the local before hook
StepBefore ==
    /\ pc = "before"
    /\ LET kind == plugins[stepIndex].before
       IN IF kind = "none"
          THEN /\ pc' = "transform"
               /\ UNCHANGED <<heap, context, log, hist, stepIndex>>
          ELSE LET r == callBefore(heap, kind, context)
               IN /\ log' = Append(log, Event("before", stepIndex))
                  /\ heap' = r.h
                  /\ IF r.ok
                     THEN /\ context' = r.v
                          /\ pc' = "transform"
                          /\ UNCHANGED <<hist, stepIndex>>
                     ELSE /\ Abandon(r.h)
                          /\ UNCHANGED context
    /\ UNCHANGED <<utilVars, plugins, config, input, inputSnap, processedData,
                   pluginData, stepValue, entrySnap, buildResult>>

\* applyPlugin, lines 217-219: the transformation
StepTransform ==
    /\ pc = "transform"
    /\ LET r == callTransform(heap, plugins[stepIndex].transform, context)
       IN /\ log' = Append(log, Event("transform", stepIndex))
          /\ heap' = r.h
          /\ IF r.ok
             THEN /\ stepValue' = r.v
                  /\ pc' = "after"
                  /\ UNCHANGED <<hist, stepIndex>>
             ELSE /\ Abandon(r.h)
                  /\ UNCHANGED stepValue
    /\ UNCHANGED <<utilVars, plugins, config, input, inputSnap, processedData,
                   pluginData, context, entrySnap, buildResult>>

\* applyPlugin, lines 221-225: the local after hook
StepAfter ==
    /\ pc = "after"
    /\ LET kind == plugins[stepIndex].after
       IN IF kind = "none"
          THEN /\ pc' = "write"
               /\ UNCHANGED <<heap, stepValue, log, hist, stepIndex>>
          ELSE LET r == callAfter(heap, kind, context, stepValue)
               IN /\ log' = Append(log, Event("after", stepIndex))
                  /\ heap' = r.h
                  /\ IF r.ok
                     THEN /\ stepValue' = r.v
                          /\ pc' = "write"
                          /\ UNCHANGED <<hist, stepIndex>>
                     ELSE /\ Abandon(r.h)
                          /\ UNCHANGED stepValue
    /\ UNCHANGED <<utilVars, plugins, config, input, inputSnap, processedData,
                   pluginData, context, entrySnap, buildResult>>

\* updatedData right after the target write of line 231
writtenData(h, plugin, data, transformedValue) ==
    LET j == jsonClone(h, data)
        w == setValueByPath(j.h, j.v, plugin.target, transformedValue)
    IN Tree(w.h, w.v)

\* updatedData after the removal, before it is copied into data
updatedData(h, plugin, data, transformedValue) ==
    LET j == jsonClone(h, data)
        w == setValueByPath(j.h, j.v, plugin.target, transformedValue)
        h2 == IF mustRemove(plugin) THEN removeSource(w.h, w.v, plugin.source) ELSE w.h
    IN Tree(h2, w.v)

\* applyPlugin, lines 227-287: the target write, the source removal and the
\* copy of updatedData into data
StepWrite ==
    /\ pc = "write"
    /\ LET h2 == writeStep(heap, plugins[stepIndex], pluginData, stepValue)
           g == getValueByPath(h2, pluginData, plugins[stepIndex].target)
           s == getValueByPath(h2, pluginData, plugins[stepIndex].source)
       IN /\ heap' = h2
          /\ hist' = Append(hist,
                [written |-> writtenData(heap, plugins[stepIndex], pluginData, stepValue),
                 updated |-> updatedData(heap, plugins[stepIndex], pluginData, stepValue)]
                @@ Finished(h2, "applied", Tree(heap, stepValue),
                            Tree(g.h, g.v), Tree(s.h, s.v)))
    /\ stepIndex' = stepIndex + 1
    /\ pc' = "loop"
    /\ UNCHANGED <<utilVars, plugins, config, input, inputSnap, processedData,
                   pluginData, context, stepValue, log, entrySnap, buildResult>>

\* build, lines 161-164: the global afterBuild hook, once the loop has ended
AfterBuild ==
    /\ pc = "loop"
    /\ stepIndex > Len(plugins)
    /\ IF config.afterBuild = "none"
       THEN /\ pc' = "return"
            /\ UNCHANGED <<heap, processedData, log>>
       ELSE LET r == callGlobal(heap, config.afterBuild, processedData)
            IN /\ log' = Append(log, Event("afterBuild", 0))
               /\ heap' = r.h
               /\ IF r.ok
                  THEN /\ processedData' = r.v
                       /\ pc' = "return"
                  ELSE /\ pc' = "thrown"
                       /\ UNCHANGED processedData
    /\ UNCHANGED <<utilVars, plugins, config, input, inputSnap, stepIndex, pluginData,
                   context, stepValue, entrySnap, hist, buildResult>>

\* build, lines 166-173: { data: processedData } is returned
Return ==
    /\ pc = "return"
    /\ buildResult' = processedData
    /\ pc' = "done"
    /\ UNCHANGED <<heap, utilVars, plugins, config, input, inputSnap, processedData,
                   stepIndex, pluginData, context, stepValue, log, entrySnap, hist>>

----------------------------------------------------------------------------
(* The pipeline as a state machine *)

NoUtil ==
    /\ upc = "off"
    /\ uobj = Undef
    /\ upath = <<>>
    /\ uval = Undef
    /\ usnap = Undef
    /\ uvsnap = Undef
    /\ ures = Undef
    /\ uread = Undef
    /\ parsed = <<>>
    /\ parsedAgain = <<>>

NoPipe ==
    /\ plugins = <<>>
    /\ config = [beforeBuild |-> "none", afterBuild |-> "none"]
    /\ input = Undef
    /\ inputSnap = Undef
    /\ processedData = Undef
    /\ stepIndex = 0
    /\ pluginData = Undef
    /\ context = NoContext
    /\ stepValue = Undef
    /\ log = <<>>
    /\ entrySnap = Undef
    /\ hist = <<>>
    /\ buildResult = Undef

\* a pipeline right after new Bricksmith(config)
Init ==
    /\ heap = <<>>
    /\ NoUtil
    /\ pc = "construct"
    /\ plugins = <<>>
    /\ config \in Configs
    /\ input = Undef
    /\ inputSnap = Undef
    /\ processedData = Undef
    /\ stepIndex = 0
    /\ pluginData = Undef
    /\ context = NoContext
    /\ stepValue = Undef
    /\ log = <<>>
    /\ entrySnap = Undef
    /\ hist = <<>>
    /\ buildResult = Undef

Next ==
    \/ \E plugin \in PluginInputs : Brick(plugin)
    \/ \E doc \in PipeDocs : Build(doc)
    \/ BeforeBuild
    \/ StepRead
    \/ StepBefore
    \/ StepTransform
    \/ StepAfter
    \/ StepWrite
    \/ AfterBuild
    \/ Return

Spec == Init /\ [][Next]_vars

----------------------------------------------------------------------------
(* The reader and the writer called on their own *)

pbc == <<"b", ".", "c">>
pEscaped == <<"a", "\\", ".", "b">>
pa1b == <<"a", "[", "1", "]", ".", "b">>
pa2 == <<"a", "[", "2", "]">>
pIdx0 == <<"[", "0", "]">>
pIdx1a == <<"[", "1", "]", ".", "a">>
paAll == <<"a", "[", "*", "]">>
paAllb == <<"a", "[", "*", "]", ".", "b">>
pStar == <<"*">>
pAlla == <<"[", "*", "]", ".", "a">>
paAllbAllc == <<"a", "[", "*", "]", ".", "b", "[", "*", "]", ".", "c">>
paAll0 == <<"a", "[", "*", "]", "[", "0", "]">>
pcAllb == <<"c", "[", "*", "]", ".", "b">>
pbStar == <<"b", ".", "*">>
pbStarc == <<"b", ".", "*", ".", "c">>
pObjWild == <<"\\", ".", "*", "\\", ".">>
k0 == <<"0">>
pIdx1 == <<"[", "1", "]">>
pa4 == <<"a", "[", "4", "]">>
pa0b3 == <<"a", "[", "0", "]", ".", "b", "[", "3", "]">>

\* a document with arrays inside the elements of an array
docNested ==
    TObj((ka :> TArr(<<TObj((kb :> TArr(<<TObj(kc :> Num(1)), TObj(kc :> Num(2))>>))
                            @@ (kc :> Num(5))),
                       TObj(kb :> TArr(<<TObj(kc :> Num(3))>>))>>))
         @@ (kc :> TArr(<<>>)))

\* the documents handed to setValueByPath: objects, arrays, null and numbers
UtilDocs ==
    { TObj((ka :> Num(1)) @@ (kb :> TObj(kc :> Num(2)))),
      TObj((pab :> Num(1)) @@ (ka :> TObj(kb :> Num(2)))),
      docNested,
      TObj((ka :> TArr(<<Num(1), Undef, TArr(<<Num(2)>>)>>)) @@ (kb :> TObj(kc :> TObj(kc :> Num(2))))),
      TArr(<<Num(1), TObj(ka :> Num(2))>>),
      TObj((ka :> Str(<<"x", "y">>)) @@ (kb :> Null) @@ (<<>> :> Num(1))),
      Null,
      Num(0),
      Num(5) }

UtilPaths ==
    { ka, kb, kc, pab, pbc, pEscaped, pa0, pa1b, pa2, pIdx0, pIdx1a,
      paAll, paAllb, pStar, paDot0, pDot, <<>>,
      pAlla, paAllbAllc, paAll0, pcAllb, pbStar, pbStarc, pObjWild, k0,
      pa4, pa0b3 }

\* the values handed to setValueByPath, freshly built
UtilValues ==
    { Num(7), Undef, TObj(kb :> Num(3)), TArr(<<Num(1)>>) }

\* the state before a call setValueByPath(uobj, upath, uval); the value is
\* fresh, or is the document or an object inside it
InitUtil ==
    /\ pc = "off"
    /\ NoPipe
    /\ upc = "call"
    /\ ures = Undef
    /\ uread = Undef
    /\ parsed = <<>>
    /\ parsedAgain = <<>>
    /\ upath \in UtilPaths
    /\ \E doc \in UtilDocs :
          LET d == Make(<<>>, doc)
          IN /\ uobj = d.v
             /\ usnap = doc
             /\ \/ \E value \in UtilValues :
                      /\ heap = Make(d.h, value).h
                      /\ uval = Make(d.h, value).v
                      /\ uvsnap = value
                \/ \E a \in Reach(d.h, d.v) :
                      /\ heap = d.h
                      /\ uval = Ref(a)
                      /\ uvsnap = Tree(d.h, Ref(a))

pipeVars ==
    <<pc, plugins, config, input, inputSnap, processedData, stepIndex, pluginData,
      context, stepValue, log, entrySnap, hist, buildResult>>

\* ures = setValueByPath(uobj, upath, uval)
UWrite ==
    /\ upc = "call"
    /\ LET r == setValueByPath(heap, uobj, upath, uval)
       IN /\ heap' = r.h
          /\ ures' = r.v
    /\ upc' = "written"
    /\ UNCHANGED <<pipeVars, uobj, upath, uval, usnap, uvsnap, uread, parsed, parsedAgain>>

\* uread = getValueByPath(ures, upath)
URead ==
    /\ upc = "written"
    /\ LET r == getValueByPath(heap, ures, upath)
       IN /\ heap' = r.h
          /\ uread' = r.v
    /\ upc' = "read"
    /\ UNCHANGED <<pipeVars, uobj, upath, uval, usnap, uvsnap, ures, parsed, parsedAgain>>

\* uread = getValueByPath(uobj, upath)
UGet ==
    /\ upc = "call"
    /\ LET r == getValueByPath(heap, uobj, upath)
       IN /\ heap' = r.h
          /\ uread' = r.v
    /\ upc' = "got"
    /\ UNCHANGED <<pipeVars, uobj, upath, uval, usnap, uvsnap, ures, parsed, parsedAgain>>

NextUtil == UWrite \/ URead \/ UGet

SpecUtil == InitUtil /\ [][NextUtil]_vars

----------------------------------------------------------------------------
(* The parser called on its own *)

\* the length of the enumerated path strings
MaxPathLen == 4

PathChars == {"a", ".", "[", "]", "\\"}

pLong ==
    <<"a", "[", "0", "]", ".", "b", "[", "*", "]", ".", "c", "[", "2", "]", ".", "d">>
pEscapedLong == <<"a", ".", "b", "\\", ".", "c">>

\* every string over PathChars up to the length, and the paths of the tests
PathStrings ==
    UNION {[1..n -> PathChars] : n \in 0..MaxPathLen} \cup {pLong, pEscapedLong}

InitParse ==
    /\ heap = <<>>
    /\ pc = "off"
    /\ NoPipe
    /\ upc = "parse"
    /\ upath \in PathStrings
    /\ uobj = Undef
    /\ uval = Undef
    /\ usnap = Undef
    /\ uvsnap = Undef
    /\ ures = Undef
    /\ uread = Undef
    /\ parsed = <<>>
    /\ parsedAgain = <<>>

\* parsed = parsePath(upath)
UParse ==
    /\ upc = "parse"
    /\ parsed' = parsePath(upath)
    /\ upc' = "parsed"
    /\ UNCHANGED <<heap, pipeVars, uobj, upath, uval, usnap, uvsnap, ures, uread, parsedAgain>>

\* parsedAgain = parsePath(upath)
UParseAgain ==
    /\ upc = "parsed"
    /\ parsedAgain' = parsePath(upath)
    /\ upc' = "parsedAgain"
    /\ UNCHANGED <<heap, pipeVars, uobj, upath, uval, usnap, uvsnap, ures, uread, parsed>>

NextParse == UParse \/ UParseAgain

SpecParse == InitParse /\ [][NextParse]_vars

----------------------------------------------------------------------------
(* C1 *)

\* C1: after setValueByPath(d, p, v) has returned, d is deep-equal to the
\* snapshot taken before the call
WriterDoesNotMutate == upc # "call" => Tree(heap, uobj) = usnap

\* a direct-key write, a wildcard write and a nested write have returned
WriterDoesNotMutateWitness ==
    /\ upc = "written"
    /\ uobj.t = "ref"
    /\ HasOwn(heap, uobj, upath)
    /\ Tree(heap, ures) # usnap

----------------------------------------------------------------------------
(* C2 *)

\* no segment of the path is a wildcard
NoWildcard(path) ==
    \A n \in 1..Len(parsePath(path)) :
        ~isArrayWildcard(parsePath(path)[n]) /\ ~isObjectWildcard(parsePath(path)[n])

\* C2 as stated: for every document, every path without a wildcard segment
\* and every value, reading the path from the written document gives the value
RoundTripAnyDocument ==
    (upc = "read" /\ NoWildcard(upath)) => Tree(heap, uread) = uvsnap

\* C2, amended: the round trip holds when the document is truthy (an object,
\* an array, a number other than 0) and the path has at least one segment
RoundTrip ==
    (upc = "read" /\ NoWildcard(upath) /\ ~Falsy(uobj) /\ Len(parsePath(upath)) > 0)
        => Tree(heap, uread) = uvsnap

\* a nested write into an object document has been read back
RoundTripWitness ==
    /\ upc = "read"
    /\ uobj.t = "ref"
    /\ Len(parsePath(upath)) >= 2
    /\ NoWildcard(upath)
    /\ uvsnap # Undef
    /\ Tree(heap, uread) = uvsnap

----------------------------------------------------------------------------
(* C3 *)

Started == pc \notin {"construct", "rejected"}

\* some finished step has the given outcome
SomeStep(outcome) == \E n \in 1..Len(hist) : hist[n].outcome = outcome

\* C3: from the call of build on, the caller's document is deep-equal to its
\* snapshot taken at the call, whatever the steps did, and the working
\* document shares no object with it
BuildDoesNotMutateInput ==
    Started => /\ Tree(heap, input) = inputSnap
               /\ Reach(heap, processedData) \cap Reach(heap, input) = {}

\* build has returned after a step removed its source from the working document
BuildDoesNotMutateInputWitness ==
    /\ pc = "done"
    /\ \E n \in 1..Len(hist) :
          /\ hist[n].outcome = "applied"
          /\ mustRemove(plugins[hist[n].step])
          /\ hist[n].post # hist[n].pre
    /\ SomeStep("failed")
    /\ Tree(heap, buildResult) # inputSnap

----------------------------------------------------------------------------
(* C4 *)

Missing == [t |-> "missing"]

\* the subtree a sequence of keys leads to, or Missing
RECURSIVE TreeAt(_, _)
TreeAt(tree, keys) ==
    IF keys = <<>> THEN tree
    ELSE IF tree.t \in {"obj", "arr"} /\ Head(keys) \in DOMAIN tree.o
         THEN TreeAt(tree.o[Head(keys)], Tail(keys))
    ELSE Missing

\* every segment of the path is a literal key
LiteralPath(path) ==
    /\ Len(parsePath(path)) > 0
    /\ \A n \in 1..Len(parsePath(path)) :
          /\ ~isArrayIndex(parsePath(path)[n])
          /\ ~isArrayWildcard(parsePath(path)[n])
          /\ ~isObjectWildcard(parsePath(path)[n])

IsPrefix(s, t) == Len(s) <= Len(t) /\ SubSeq(t, 1, Len(s)) = s

Overlap(p, q) ==
    IsPrefix(parsePath(p), parsePath(q)) \/ IsPrefix(parsePath(q), parsePath(p))

\* the keys leading to the parent of the last segment
ParentKeys(path) == SubSeq(parsePath(path), 1, Len(parsePath(path)) - 1)

\* step n of hist was applied as a move between two different literal-key paths
LiteralMove(n) ==
    /\ hist[n].outcome = "applied"
    /\ plugins[hist[n].step].source # plugins[hist[n].step].target
    /\ ~plugins[hist[n].step].keepSource
    /\ LiteralPath(plugins[hist[n].step].source)
    /\ LiteralPath(plugins[hist[n].step].target)

\* after step n the source key is gone and the target reads the final value
Moved(n) ==
    /\ TreeAt(hist[n].post, parsePath(plugins[hist[n].step].source)) = Missing
    /\ hist[n].readback = hist[n].value

----------------------------------------------------------------------------
(* C5 *)

\* step n of hist was applied as a copy: different paths, keepSource set
KeepStep(n) ==
    /\ hist[n].outcome = "applied"
    /\ plugins[hist[n].step].source # plugins[hist[n].step].target
    /\ plugins[hist[n].step].keepSource

\* step n of hist was applied in place: the target is the source
InPlaceStep(n) ==
    /\ hist[n].outcome = "applied"
    /\ plugins[hist[n].step].source = plugins[hist[n].step].target

\* literal-key paths, neither a prefix of the other, the source key in a
\* plain object
Separate(n) ==
    /\ LiteralPath(plugins[hist[n].step].source)
    /\ LiteralPath(plugins[hist[n].step].target)
    /\ ~Overlap(plugins[hist[n].step].source, plugins[hist[n].step].target)
    /\ TreeAt(hist[n].pre, ParentKeys(plugins[hist[n].step].source)).t = "obj"

----------------------------------------------------------------------------
(* C6 *)

\* no callback of the given step is in the log
NoCallback(step) == \A e \in 1..Len(log) : log[e].step # step

\* C6: a step whose source value reads as undefined is skipped: no hook and
\* no transformation of the step is invoked and the working document after
\* the step is deep-equal to the working document before it
SkipOnMissing ==
    \A n \in 1..Len(hist) :
        hist[n].sourceBefore = Undef
            => /\ hist[n].outcome = "skipped"
               /\ hist[n].post = hist[n].pre
               /\ NoCallback(hist[n].step)

\* a step with both hooks was skipped and the next step was applied
SkipOnMissingWitness ==
    /\ Len(hist) = 2
    /\ hist[1].outcome = "skipped"
    /\ plugins[1].before # "none"
    /\ plugins[1].after # "none"
    /\ hist[2].outcome = "applied"
    /\ hist[2].post # hist[2].pre

----------------------------------------------------------------------------
(* C7 *)

----------------------------------------------------------------------------
(* C8 *)

\* C8: no exception of a callback reaches the caller of build, and a build
\* that has returned has executed every step
FailuresNeverFatal ==
    /\ pc # "thrown"
    /\ pc = "done" => Len(hist) = Len(plugins)

----------------------------------------------------------------------------
(* C9 *)

\* what the Reader returns for the path in a document given by its tree
ReadTree(tree, path) ==
    LET m == Make(<<>>, tree)
        g == getValueByPath(m.h, m.v, path)
    IN Tree(g.h, g.v)

\* C9: the steps finish in registration order, each once; a step is handed
\* the working document itself, reads its sourceValue and targetValue from
\* it, and finds it as the step before left it
StepsInOrder ==
    /\ Len(hist) <= Len(plugins)
    /\ \A n \in 1..Len(hist) : hist[n].step = n
    /\ \A n \in 2..Len(hist) :
          /\ hist[n].pre = hist[n - 1].post
          /\ hist[n].sourceBefore = ReadTree(hist[n - 1].post, plugins[n].source)
    /\ pc \in {"before", "transform", "after", "write"}
          => /\ context.data = processedData
             /\ pluginData = processedData
    /\ pc = "before"
          => /\ Tree(heap, context.sourceValue)
                    = ReadTree(Tree(heap, processedData), plugins[stepIndex].source)
             /\ Tree(heap, context.targetValue)
                    = ReadTree(Tree(heap, processedData), plugins[stepIndex].target)

\* the second step has read what the first step wrote, after the first step
\* removed its source
StepsInOrderWitness ==
    /\ Len(hist) = 2
    /\ hist[1].outcome = "applied"
    /\ hist[2].outcome = "applied"
    /\ mustRemove(plugins[1])
    /\ plugins[2].source = plugins[1].target
    /\ hist[2].sourceBefore = hist[1].value
    /\ hist[1].post # hist[1].pre

----------------------------------------------------------------------------
(* C10 *)

\* how often the callback ev is in the log
Count(ev) == Cardinality({e \in 1..Len(log) : log[e].ev = ev})

\* the place of a callback of a step in the order of a build
Rank(event) ==
    4 * event.step + CASE event.ev = "before" -> 1
                       [] event.ev = "transform" -> 2
                       [] event.ev = "after" -> 3
                       [] OTHER -> 0

StepEvents == {e \in 1..Len(log) : log[e].step > 0}

\* C10: when build has ended, a beforeBuild hook was invoked once, before
\* every other callback, an afterBuild hook once, after every other callback,
\* and the callbacks of the steps are in the order of the steps, within a
\* step before, transform, after
HookOrdering ==
    /\ (pc \in {"done", "thrown"} /\ config.beforeBuild # "none")
          => Count("beforeBuild") = 1 /\ log[1].ev = "beforeBuild"
    /\ (pc \in {"done", "thrown"} /\ config.afterBuild # "none")
          => Count("afterBuild") = 1 /\ log[Len(log)].ev = "afterBuild"
    /\ \A e1, e2 \in StepEvents : e1 < e2 => Rank(log[e1]) < Rank(log[e2])

----------------------------------------------------------------------------
(* C11 *)

\* the characters i..i+2 of the path are [*]
WildAt(path, i) == i + 2 <= Len(path) /\ SubSeq(path, i, i + 2) = <<"[", "*", "]">>

\* the first wildcard of the path is the [*] at i
FirstWildAt(path, i) == WildAt(path, i) /\ NoWildcard(SubSeq(path, 1, i - 1))

\* the path after the [*] at i, without the dot that follows the wildcard
RestOf(path, i) ==
    LET r == SubSeq(path, i + 3, Len(path))
    IN IF r # <<>> /\ r[1] = "." THEN Tail(r) ELSE r

\* the value the segments before position i lead to
BaseOf(path, i) == getWalk(heap, uobj, parsePath(SubSeq(path, 1, i - 1)), 1).v

\* the tree the Reader returns for the path in the value
ReadValue(v, path) ==
    LET g == getValueByPath(heap, v, path)
    IN Tree(g.h, g.v)

\* the result holds, for the array arr and the rest of the path, one entry
\* per element of arr: the element's read of the rest
EntryPerElement(arr, rest) ==
    /\ IsArray(heap, uread)
    /\ heap[uread.r].len = heap[arr.r].len
    /\ \A j \in 0..(heap[arr.r].len - 1) :
          Tree(heap, GetProp(heap, uread, NumToStr(j)))
              = IF rest = <<>> THEN Tree(heap, GetProp(heap, arr, NumToStr(j)))
                ELSE ReadValue(GetProp(heap, arr, NumToStr(j)), rest)

\* C11: a read whose first wildcard [*] meets an array of N elements returns
\* an array of N entries, entry i being the read of the rest of the path
\* against element i, so that every further wildcard adds a level:
\* a[*].b[*].c of the nested document reads [[1, 2], [3]]
WildcardReadShape ==
    (upc = "got" /\ ~Falsy(uobj) /\ ~HasOwn(heap, uobj, upath) /\ ~isEscapedPath(upath))
        => /\ \A i \in 1..Len(upath) :
                 (FirstWildAt(upath, i) /\ IsArray(heap, BaseOf(upath, i)))
                     => EntryPerElement(BaseOf(upath, i), RestOf(upath, i))
           /\ (upath = paAllbAllc /\ usnap = docNested)
                 => Tree(heap, uread)
                       = TArr(<<TArr(<<Num(1), Num(2)>>), TArr(<<Num(3)>>)>>)

\* the read through two wildcards has returned two levels of arrays
WildcardReadShapeWitness ==
    /\ upc = "got"
    /\ upath = paAllbAllc
    /\ Tree(heap, uread) = TArr(<<TArr(<<Num(1), Num(2)>>), TArr(<<Num(3)>>)>>)

----------------------------------------------------------------------------
(* C12 *)

\* the tree with the subtree at the keys replaced
RECURSIVE TreeWith(_, _, _)
TreeWith(tree, keys, sub) ==
    IF keys = <<>> THEN sub
    ELSE [tree EXCEPT !.o[Head(keys)] = TreeWith(@, Tail(keys), sub)]

\* the own fields of a tree
Fields(tree) == IF tree.t \in {"obj", "arr"} THEN DOMAIN tree.o ELSE {}

\* the [*] at i is the only wildcard of the path, follows literal keys that
\* lead to an array of the document and is followed by one literal key
BroadcastAt(path, i) ==
    /\ FirstWildAt(path, i)
    /\ i = 1 \/ LiteralPath(SubSeq(path, 1, i - 1))
    /\ LiteralPath(RestOf(path, i))
    /\ Len(parsePath(RestOf(path, i))) = 1
    /\ TreeAt(usnap, parsePath(SubSeq(path, 1, i - 1))).t = "arr"

\* new is old with flag = value in every element, nothing else changed
Broadcast(old, new, flag, value) ==
    /\ new.t = "arr"
    /\ new.len = old.len
    /\ DOMAIN new.o = DOMAIN old.o
    /\ \A k \in DOMAIN old.o :
          /\ new.o[k].t = "obj"
          /\ Fields(new.o[k]) = Fields(old.o[k]) \cup {flag}
          /\ new.o[k].o[flag] = value
          /\ \A f \in Fields(old.o[k]) \ {flag} : new.o[k].o[f] = old.o[k].o[f]

----------------------------------------------------------------------------
(* C13 *)

\* the properties of the cells of a value that refer to the cell x
Referrers(h, v, x) ==
    {e \in Reach(h, v) \X UNION {DOMAIN h[c].o : c \in Reach(h, v)} :
        e[2] \in DOMAIN h[e[1]].o /\ h[e[1]].o[e[2]] = Ref(x)}

\* no object of the value is held by two of its properties
Unshared(h, v) == \A x \in Reach(h, v) : Cardinality(Referrers(h, v, x)) <= 1

\* C13: after a write of an object or array through a path with a wildcard,
\* no object of the result is held at two locations and none is an object of
\* the caller's value
NoFanOutAliasing ==
    ( /\ upc = "written"
      /\ ~Falsy(uobj)
      /\ ~HasOwn(heap, uobj, upath)
      /\ ~NoWildcard(upath)
      /\ uval.t = "ref" )
        => /\ Unshared(heap, ures)
           /\ Reach(heap, ures) \cap Reach(heap, uval) = {}

----------------------------------------------------------------------------
(* C14 *)

\* segment w of the parts is the first wildcard, * or [*], and the literal
\* keys before it lead to a plain object of the document
ObjectWildcardAt(parts, w) ==
    /\ isArrayWildcard(parts[w]) \/ isObjectWildcard(parts[w])
    /\ \A n \in 1..(w - 1) :
          /\ ~isArrayIndex(parts[n])
          /\ ~isArrayWildcard(parts[n])
          /\ ~isObjectWildcard(parts[n])
    /\ TreeAt(usnap, SubSeq(parts, 1, w - 1)).t = "obj"

\* the result is an object with the keys of the object obj, each value the
\* read of the rest of the path against the value of the key
EntryPerKey(obj, rest) ==
    /\ IsObject(heap, uread)
    /\ DOMAIN heap[uread.r].o = DOMAIN heap[obj.r].o
    /\ \A k \in DOMAIN heap[obj.r].o :
          Tree(heap, heap[uread.r].o[k]) = ReadValue(heap[obj.r].o[k], rest)

\* C14: a read whose first wildcard meets a plain object returns the whole
\* object when the wildcard is the last segment, and otherwise an object
\* with the same keys, each value replaced by its read of the rest of the path
ObjectWildcardRead ==
    (upc = "got" /\ ~Falsy(uobj) /\ ~HasOwn(heap, uobj, upath) /\ ~isEscapedPath(upath))
        => LET parts == parsePath(upath)
           IN \A w \in 1..Len(parts) :
                 ObjectWildcardAt(parts, w)
                    => IF w = Len(parts)
                       THEN Tree(heap, uread) = TreeAt(usnap, SubSeq(parts, 1, w - 1))
                       ELSE EntryPerKey(getWalk(heap, uobj, SubSeq(parts, 1, w - 1), 1).v,
                                        joinDots(SubSeq(parts, w + 1, Len(parts))))

----------------------------------------------------------------------------
(* C15 *)

\* C15: a write whose first wildcard meets a plain object leaves, for every
\* key of the object, the value at the rest of the path (literal keys) below
\* that key, or at the key itself when the wildcard is the last segment
ObjectWildcardWrite ==
    (upc = "written" /\ ~Falsy(uobj) /\ ~HasOwn(heap, uobj, upath)
                     /\ ~isEscapedPath(upath))
        => LET parts == parsePath(upath)
           IN \A w \in 1..Len(parts) :
                 ( /\ ObjectWildcardAt(parts, w)
                   /\ w = Len(parts) \/ LiteralPath(joinDots(SubSeq(parts, w + 1, Len(parts)))) )
                    => /\ \A k \in DOMAIN TreeAt(usnap, SubSeq(parts, 1, w - 1)).o :
                             TreeAt(Tree(heap, ures),
                                    SubSeq(parts, 1, w - 1) \o <<k>>
                                        \o SubSeq(parts, w + 1, Len(parts))) = uvsnap
                       /\ w = Len(parts)
                             => /\ Unshared(heap, ures)
                                /\ Reach(heap, ures) \cap Reach(heap, uval) = {}

----------------------------------------------------------------------------
(* C16 *)

\* the path holds a backslash followed by a dot
HasEscapedDot(path) == \E i \in 1..(Len(path) - 1) : path[i] = "\\" /\ path[i + 1] = "."

\* the j-th smallest number of a set of numbers
Nth(S, j) == CHOOSE i \in S : Cardinality({k \in S : k <= i}) = j

\* the positions of the path that are not a backslash before a dot
Kept(path) ==
    {i \in 1..Len(path) : ~(path[i] = "\\" /\ i < Len(path) /\ path[i + 1] = ".")}

\* the path without its escape markers
Stripped(path) == [j \in 1..Cardinality(Kept(path)) |-> path[Nth(Kept(path), j)]]

\* C16: for a path that holds an escaped dot anywhere, parsePath returns one
\* segment, the whole path without the backslashes that precede a dot
EscapedIsOneSegment ==
    (upc # "parse" /\ HasEscapedDot(upath)) => parsed = <<Stripped(upath)>>

\* a.b\.c has been parsed to the one segment a.b.c
EscapedIsOneSegmentWitness ==
    /\ upc = "parsed"
    /\ upath = pEscapedLong
    /\ parsed = << <<"a", ".", "b", ".", "c">> >>

----------------------------------------------------------------------------
(* C17 *)

\* before position i the scan is inside brackets: a [ precedes i with no ]
\* in between
Inside(path, i) ==
    \E j \in 1..(i - 1) : path[j] = "[" /\ \A k \in (j + 1)..(i - 1) : path[k] # "]"

\* position i is a separator: a dot outside brackets
Sep(path, i) == path[i] = "." /\ ~Inside(path, i)

\* a segment starts at position i: at the first character, after a
\* separator, at an opening bracket, after a closing bracket
Start(path, i) ==
    /\ ~Sep(path, i)
    /\ \/ i = 1
       \/ Sep(path, i - 1)
       \/ path[i] = "[" /\ ~Inside(path, i)
       \/ path[i - 1] = "]" /\ Inside(path, i - 1)

Starts(path) == {i \in 1..Len(path) : Start(path, i)}

\* the last position of the segment that starts at s
EndOf(path, s) ==
    CHOOSE e \in s..Len(path) :
        /\ \A k \in (s + 1)..e : ~Start(path, k) /\ ~Sep(path, k)
        /\ e = Len(path) \/ Start(path, e + 1) \/ Sep(path, e + 1)

\* the segments of the path, left to right
Segments(path) ==
    [j \in 1..Cardinality(Starts(path)) |->
        SubSeq(path, Nth(Starts(path), j), EndOf(path, Nth(Starts(path), j)))]

\* C17: for a path without an escaped dot, parsePath returns the segments
\* left to right, a dot outside brackets ending a segment, [ to ] being one
\* segment; no segment is empty, the empty path has none, and a second call
\* returns the same
ParserSegmentation ==
    (upc # "parse" /\ ~HasEscapedDot(upath))
        => /\ parsed = Segments(upath)
           /\ \A n \in 1..Len(parsed) : parsed[n] # <<>>
           /\ upath = <<>> => parsed = <<>>
           /\ upc = "parsedAgain" => parsedAgain = parsed

\* a[0].b[*].c[2].d has been parsed twice to its seven segments
ParserSegmentationWitness ==
    /\ upc = "parsedAgain"
    /\ upath = pLong
    /\ parsed = << <<"a">>, <<"[", "0", "]">>, <<"b">>, <<"[", "*", "]">>, <<"c">>,
                   <<"[", "2", "]">>, <<"d">> >>

----------------------------------------------------------------------------
(* C18 *)

\* the document is an object or an array holding the whole path as a key
OwnsPath == usnap.t \in {"obj", "arr"} /\ upath \in DOMAIN usnap.o

\* the read gave the value of the key; the write gave the document with that
\* key alone replaced, whatever nested location the path also names
DirectKeyUsed ==
    /\ upc = "got" => Tree(heap, uread) = usnap.o[upath]
    /\ upc = "written" => Tree(heap, ures) = [usnap EXCEPT !.o[upath] = uvsnap]

\* C18 as stated: whenever the document owns a key equal to the whole path,
\* getValueByPath returns that key's value and setValueByPath overwrites only
\* that key
DirectKeyAnyPath == OwnsPath => DirectKeyUsed

\* C18, amended: the same, when the path is not the empty string
DirectKeyFastPath == (OwnsPath /\ upath # <<>>) => DirectKeyUsed

\* the key 'a.b' of a document that also has a.b has been overwritten
DirectKeyFastPathWitness ==
    /\ upc = "written"
    /\ upath = pab
    /\ OwnsPath
    /\ TreeAt(usnap, <<ka, kb>>) # Missing
    /\ uvsnap # usnap.o[pab]
    /\ TreeAt(Tree(heap, ures), <<ka, kb>>) = TreeAt(usnap, <<ka, kb>>)

----------------------------------------------------------------------------
(* C19 *)

\* walking the document along the segments meets one that does not fit: a
\* literal segment at a scalar, at null or at a container without the key, an
\* index at a value that is not an array or past its elements, a wildcard at
\* a scalar or at null
RECURSIVE Mismatch(_, _, _)
Mismatch(tree, parts, i) ==
    IF i > Len(parts) THEN FALSE
    ELSE IF isArrayWildcard(parts[i]) \/ isObjectWildcard(parts[i])
         THEN tree.t \notin {"obj", "arr"}
    ELSE IF isArrayIndex(parts[i])
         THEN \/ tree.t # "arr"
              \/ NumToStr(getArrayIndex(parts[i])) \notin DOMAIN tree.o
              \/ Mismatch(tree.o[NumToStr(getArrayIndex(parts[i]))], parts, i + 1)
    ELSE \/ tree.t \notin {"obj", "arr"}
         \/ parts[i] \notin DOMAIN tree.o
         \/ Mismatch(tree.o[parts[i]], parts, i + 1)

\* C19: a read whose path does not fit the document, at the last or at an
\* earlier segment, returns undefined
ReaderMismatch ==
    (upc = "got" /\ ~OwnsPath /\ Mismatch(usnap, parsePath(upath), 1))
        => uread = Undef

----------------------------------------------------------------------------
(* The pipeline of steps that carry a fallback *)

\* a step with a fallback; Undef is a step that supplies none
WithFallback(plugin, fallback) == [fallback |-> fallback] @@ plugin

\* the steps handed to the pipeline: the source m is in no document of
\* PipeDocs, the source a is in three of the four
FallbackBricks ==
    { WithFallback(Plugin(km, km, FALSE, "id", "none", "none"), Str(<<"U">>)),
      WithFallback(Plugin(km, kb, FALSE, "id", "none", "none"), Num(0)),
      WithFallback(Plugin(ka, kb, TRUE, "id", "none", "none"), Str(<<"U">>)),
      WithFallback(Plugin(km, kn, FALSE, "const", "none", "none"), Undef),
      WithFallback(Plugin(km, kn, FALSE, "id", "same", "same"), TObj(kb :> Num(3))) }

\* the step supplies a fallback
hasFallback(plugin) == plugin.fallback # Undef

\* the source of the step is resolved; when it is not found the fallback of
\* the step, if it supplies one, is the source value, else the step is skipped
StepReadFallback ==
    /\ pc = "loop"
    /\ stepIndex <= Len(plugins)
    /\ LET plugin == plugins[stepIndex]
           arg == pluginArgument(heap, processedData)
           s == getValueByPath(arg.h, arg.v, plugin.source)
           t == getValueByPath(s.h, arg.v, plugin.target)
           f == IF sourceMissing(s.v) /\ hasFallback(plugin)
                THEN Make(t.h, plugin.fallback)
                ELSE R(t.h, s.v)
       IN /\ heap' = f.h
          /\ pluginData' = arg.v
          /\ entrySnap' = [doc |-> Tree(heap, processedData),
                           sourceValue |-> Tree(t.h, s.v),
                           sourceCopy |-> Tree(jsonClone(t.h, s.v).h,
                                               jsonClone(t.h, s.v).v)]
          /\ context' = [data |-> arg.v, source |-> plugin.source, sourceValue |-> f.v,
                         target |-> plugin.target, targetValue |-> t.v]
          /\ IF sourceMissing(f.v)
             THEN /\ hist' = Append(hist, [step |-> stepIndex, outcome |-> "skipped",
                                           pre |-> Tree(heap, processedData),
                                           post |-> Tree(t.h, arg.v),
                                           value |-> Undef, readback |-> Undef,
                                           sourceBefore |-> Tree(t.h, s.v),
                                           sourceCopy |-> Undef,
                                           sourceAfter |-> Undef])
                  /\ stepIndex' = stepIndex + 1
                  /\ pc' = "loop"
             ELSE /\ pc' = "before"
                  /\ UNCHANGED <<hist, stepIndex>>
    /\ UNCHANGED <<utilVars, plugins, config, input, inputSnap, processedData,
                   stepValue, log, buildResult>>

NextFallback ==
    \/ \E plugin \in FallbackBricks : Brick(plugin)
    \/ \E doc \in PipeDocs : Build(doc)
    \/ BeforeBuild
    \/ StepReadFallback
    \/ StepBefore
    \/ StepTransform
    \/ StepAfter
    \/ StepWrite
    \/ AfterBuild
    \/ Return

SpecFallback == Init /\ [][NextFallback]_vars

----------------------------------------------------------------------------
(* C20 *)

\* the step that hist entry e is about found no source value and supplies a
\* fallback
FellBack(e) == e.sourceBefore = Undef /\ hasFallback(plugins[e.step])

----------------------------------------------------------------------------
(* The pipeline of steps that carry an applicability condition *)

\* a step with a condition, named by its kind; "none" is a step without one
WithCondition(plugin, condition) == [condition |-> condition] @@ plugin

\* the steps handed to the pipeline
ConditionBricks ==
    { WithCondition(Plugin(ka, kb, FALSE, "id", "none", "none"), "never"),
      WithCondition(Plugin(ka, kb, TRUE, "id", "none", "none"), "always"),
      WithCondition(Plugin(kb, kc, FALSE, "id", "same", "same"), "hasB"),
      WithCondition(Plugin(ka, kc, FALSE, "const", "same", "none"), "never"),
      WithCondition(Plugin(km, kb, FALSE, "id", "none", "none"), "none") }

\* condition(document): "hasB" asks whether the document owns the key b
callCondition(h, kind, d) ==
    CASE kind = "none" -> TRUE
      [] kind = "always" -> TRUE
      [] kind = "never" -> FALSE
      [] kind = "hasB" -> d.t = "ref" /\ HasOwn(h, d, kb)

\* a step whose condition is false against the working document is skipped
\* before anything is read; any other step starts as applyPlugin starts
StepCondition ==
    /\ pc = "loop"
    /\ stepIndex <= Len(plugins)
    /\ IF callCondition(heap, plugins[stepIndex].condition, processedData)
       THEN StepRead
       ELSE /\ hist' = Append(hist, [step |-> stepIndex, outcome |-> "inapplicable",
                                     pre |-> Tree(heap, processedData),
                                     post |-> Tree(heap, processedData),
                                     value |-> Undef, readback |-> Undef,
                                     sourceBefore |-> Undef, sourceCopy |-> Undef,
                                     sourceAfter |-> Undef])
            /\ stepIndex' = stepIndex + 1
            /\ UNCHANGED <<heap, utilVars, pc, plugins, config, input, inputSnap,
                           processedData, pluginData, context, stepValue, log,
                           entrySnap, buildResult>>

NextCondition ==
    \/ \E plugin \in ConditionBricks : Brick(plugin)
    \/ \E doc \in PipeDocs : Build(doc)
    \/ BeforeBuild
    \/ StepCondition
    \/ StepBefore
    \/ StepTransform
    \/ StepAfter
    \/ StepWrite
    \/ AfterBuild
    \/ Return

SpecCondition == Init /\ [][NextCondition]_vars

----------------------------------------------------------------------------
(* C21 *)

\* the condition of the step that hist entry e is about is false against the
\* document the step met
Unmet(e) ==
    \/ plugins[e.step].condition = "never"
    \/ /\ plugins[e.step].condition = "hasB"
       /\ ~(e.pre.t \in {"obj", "arr"} /\ kb \in DOMAIN e.pre.o)

----------------------------------------------------------------------------
(* C22 *)

\* the key a segment names in its container: the index of an index segment,
\* the segment itself otherwise
KeyOf(part) == IF isArrayIndex(part) THEN NumToStr(getArrayIndex(part)) ELSE part

\* the subtree the segments i..last lead to when every index segment meets
\* an array that has the element and every literal segment meets an object
\* that has the key; Missing otherwise
RECURSIVE Descend(_, _, _, _)
Descend(tree, parts, i, last) ==
    IF i > last THEN tree
    ELSE IF isArrayWildcard(parts[i]) \/ isObjectWildcard(parts[i]) THEN Missing
    ELSE IF /\ tree.t = (IF isArrayIndex(parts[i]) THEN "arr" ELSE "obj")
            /\ KeyOf(parts[i]) \in DOMAIN tree.o
         THEN Descend(tree.o[KeyOf(parts[i])], parts, i + 1, last)
    ELSE Missing

\* what position j of an array reads
Elem(tree, j) == IF NumToStr(j) \in DOMAIN tree.o THEN tree.o[NumToStr(j)] ELSE Undef

\* the array an index write is aimed at: the path ends in an index and the
\* segments before it lead to an array of the document
TargetArray(doc, path) == Descend(doc, parsePath(path), 1, Len(parsePath(path)) - 1)

IndexWriteAt(doc, path) ==
    /\ doc.t \in {"obj", "arr"}
    /\ path \notin DOMAIN doc.o
    /\ Len(parsePath(path)) > 0
    /\ isArrayIndex(parsePath(path)[Len(parsePath(path))])
    /\ getArrayIndex(parsePath(path)[Len(parsePath(path))]) # NaN
    /\ TargetArray(doc, path) # Missing
    /\ TargetArray(doc, path).t = "arr"

\* C22: writing v at index i of an existing array of length n gives an array
\* of length max(n, i + 1) that reads v at i, the original element at every
\* other position below n and undefined at the positions n..i-1
IndexWritePads ==
    (upc = "written" /\ IndexWriteAt(usnap, upath)) =>
        LET old == TargetArray(usnap, upath)
            new == TargetArray(Tree(heap, ures), upath)
            i == getArrayIndex(parsePath(upath)[Len(parsePath(upath))])
        IN /\ new # Missing
           /\ new.t = "arr"
           /\ new.len = IF old.len > i + 1 THEN old.len ELSE i + 1
           /\ Elem(new, i) = uvsnap
           /\ \A j \in 0..(old.len - 1) : j # i => Elem(new, j) = Elem(old, j)
           /\ \A j \in old.len..(i - 1) : Elem(new, j) = Undef

\* a write two positions past the end of an array inside an array element
IndexWritePadsWitness ==
    /\ upc = "written"
    /\ upath = pa0b3
    /\ IndexWriteAt(usnap, upath)
    /\ TargetArray(usnap, upath).len = 2
    /\ uvsnap # Undef
    /\ TargetArray(Tree(heap, ures), upath).len = 4

----------------------------------------------------------------------------
(* C23 *)

\* the keys the first k segments name
PrefixKeys(parts, k) == [n \in 1..k |-> KeyOf(parts[n])]

\* the value segment k of the path is applied to: the segments before it fit
\* the document, which does not own the path as a key
MetAt(doc, path, k) ==
    IF /\ doc.t \in {"obj", "arr"}
       /\ path \notin DOMAIN doc.o
       /\ k \in 1..Len(parsePath(path))
    THEN Descend(doc, parsePath(path), 1, k - 1)
    ELSE Missing

\* segment k is a wildcard applied to a scalar or to null
WildMisfit(doc, path, k) ==
    /\ MetAt(doc, path, k) # Missing
    /\ isArrayWildcard(parsePath(path)[k]) \/ isObjectWildcard(parsePath(path)[k])
    /\ MetAt(doc, path, k).t \in {"null", "num", "str", "bool"}

\* segment k is an index applied to a value that is not an array
IndexMisfit(doc, path, k) ==
    /\ MetAt(doc, path, k) # Missing
    /\ ~isArrayWildcard(parsePath(path)[k])
    /\ isArrayIndex(parsePath(path)[k])
    /\ MetAt(doc, path, k).t \in {"null", "num", "str", "bool", "obj"}

\* C23 as stated: a write whose path applies a wildcard to a scalar or null,
\* or an index to a value that is not an array, returns a document deep-equal
\* to the input document
WriterMismatchNoOp ==
    upc = "written" =>
        \A k \in 1..Len(upath) :
            (WildMisfit(usnap, upath, k) \/ IndexMisfit(usnap, upath, k))
                => Tree(heap, ures) = usnap

\* C23, amended: the wildcard case returns a document deep-equal to the
\* input; the index case puts a fresh array in the place of the value that is
\* not an array, undefined below the index and, when the index is the last
\* segment, the written value at the index; the rest of the document is as
\* before
WriterMismatch ==
    upc = "written" =>
        \A k \in 1..Len(upath) :
            /\ WildMisfit(usnap, upath, k) => Tree(heap, ures) = usnap
            /\ IndexMisfit(usnap, upath, k) =>
                  LET parts == parsePath(upath)
                      new == Descend(Tree(heap, ures), parts, 1, k - 1)
                      i == getArrayIndex(parts[k])
                  IN /\ new # Missing
                     /\ new.t = "arr"
                     /\ new.len = i + 1
                     /\ \A j \in 0..(i - 1) : Elem(new, j) = Undef
                     /\ k = Len(parts) => Elem(new, i) = uvsnap
                     /\ TreeWith(Tree(heap, ures), PrefixKeys(parts, k - 1), Null)
                           = TreeWith(usnap, PrefixKeys(parts, k - 1), Null)

\* a[1].b has been written into a document whose a is a number
WriterMismatchWitness ==
    /\ upc = "written"
    /\ upath = pa1b
    /\ IndexMisfit(usnap, upath, 2)
    /\ usnap.o[ka] = Num(1)
    /\ uvsnap = Num(7)
    /\ TreeAt(Tree(heap, ures), <<ka, <<"1">>, kb>>) = Num(7)

----------------------------------------------------------------------------
(* C24 *)

\* the source path of the step of hist entry e ends in an index, and the
\* segments before it lead to an array of the document the step met
IndexSource(e) ==
    LET parts == parsePath(plugins[e.step].source)
    IN /\ Len(parts) > 0
       /\ ~isArrayWildcard(parts[Len(parts)])
       /\ isArrayIndex(parts[Len(parts)])
       /\ getArrayIndex(parts[Len(parts)]) # NaN
       /\ Descend(e.pre, parts, 1, Len(parts) - 1) # Missing
       /\ Descend(e.pre, parts, 1, Len(parts) - 1).t = "arr"

\* the array the source of e names, in a document
SourceArray(e, doc) ==
    Descend(doc, parsePath(plugins[e.step].source), 1,
            Len(parsePath(plugins[e.step].source)) - 1)

SourceIndex(e) ==
    getArrayIndex(parsePath(plugins[e.step].source)[Len(parsePath(plugins[e.step].source))])

\* e is an applied move
AppliedMove(e) ==
    /\ e.outcome = "applied"
    /\ plugins[e.step].source # plugins[e.step].target
    /\ ~plugins[e.step].keepSource

\* new is old without its element i
Spliced(old, new, i) ==
    /\ new # Missing
    /\ new.t = "arr"
    /\ new.len = old.len - 1
    /\ \A j \in 0..(i - 1) : Elem(new, j) = Elem(old, j)
    /\ \A j \in (i + 1)..(old.len - 1) : Elem(new, j - 1) = Elem(old, j)

\* C24: a move whose source ends in an index in range of its parent array
\* leaves the array one shorter, the elements before the index in place and
\* the elements after it one position down; an index out of range leaves the
\* array as it was
SpliceOnMove ==
    \A n \in 1..Len(hist) :
        IndexSource(hist[n]) =>
            IF SourceIndex(hist[n]) < SourceArray(hist[n], hist[n].pre).len
            THEN AppliedMove(hist[n]) =>
                    Spliced(SourceArray(hist[n], hist[n].pre),
                            SourceArray(hist[n], hist[n].post), SourceIndex(hist[n]))
            ELSE SourceArray(hist[n], hist[n].post) = SourceArray(hist[n], hist[n].pre)

----------------------------------------------------------------------------
(* The pipeline of steps that move inside arrays and across overlapping paths *)

\* moves out of and into arrays, from an ancestor into its own descendant,
\* from a path the document also owns as a key, and a copy that pads an array
MovePlugins ==
    { Plugin(pIdx1a, ka, FALSE, "id", "none", "none"),
      Plugin(pIdx0, pIdx1, FALSE, "id", "none", "none"),
      Plugin(ka, pab, FALSE, "const", "none", "none"),
      Plugin(pa0, pa2, FALSE, "id", "none", "none"),
      Plugin(pab, kc, FALSE, "id", "none", "none"),
      Plugin(ka, kb, FALSE, "id", "none", "wrap"),
      Plugin(kb, pa4, TRUE, "id", "none", "none") }

NextMove ==
    \/ \E plugin \in MovePlugins : Brick(plugin)
    \/ \E doc \in PipeDocs : Build(doc)
    \/ BeforeBuild
    \/ StepRead
    \/ StepBefore
    \/ StepTransform
    \/ StepAfter
    \/ StepWrite
    \/ AfterBuild
    \/ Return

SpecMove == Init /\ [][NextMove]_vars

----------------------------------------------------------------------------
(* C25 *)

\* the walk of the segments 1..last through a document stops short: an index
\* segment meets a value that is not an array or a position out of range, a
\* wildcard segment is met, or a key is missing
RECURSIVE WalkFails(_, _, _, _)
WalkFails(tree, parts, i, last) ==
    IF i > last THEN FALSE
    ELSE IF isArrayWildcard(parts[i]) \/ isObjectWildcard(parts[i]) THEN TRUE
    ELSE IF isArrayIndex(parts[i])
         THEN \/ tree.t # "arr"
              \/ getArrayIndex(parts[i]) = NaN
              \/ getArrayIndex(parts[i]) >= tree.len
              \/ WalkFails(Elem(tree, getArrayIndex(parts[i])), parts, i + 1, last)
    ELSE \/ tree.t \notin {"obj", "arr"}
         \/ parts[i] \notin DOMAIN tree.o
         \/ WalkFails(tree.o[parts[i]], parts, i + 1, last)

\* the removal of the step of hist entry e cannot reach the parent of its
\* source in the document as written, or its source ends in a wildcard
RemovalFails(e) ==
    LET parts == parsePath(plugins[e.step].source)
    IN /\ Len(parts) > 0
       /\ \/ isArrayWildcard(parts[Len(parts)])
          \/ isObjectWildcard(parts[Len(parts)])
          \/ WalkFails(e.written, parts, 1, Len(parts) - 1)

\* C25: a removal that cannot reach the parent of the source, or whose last
\* segment is a wildcard, deletes nothing: the document after the removal is
\* deep-equal to the document right after the target write
TolerantRemoval ==
    \A n \in 1..Len(hist) :
        (AppliedMove(hist[n]) /\ RemovalFails(hist[n]))
            => hist[n].updated = hist[n].written

----------------------------------------------------------------------------
(* C26 *)

\* the paths of the step of hist entry e have literal and index segments
\* only, at least one each
PlainPaths(e) ==
    /\ NoWildcard(plugins[e.step].source)
    /\ NoWildcard(plugins[e.step].target)
    /\ Len(parsePath(plugins[e.step].source)) > 0
    /\ Len(parsePath(plugins[e.step].target)) > 0

\* C26: right after every applied step, copy or move, with literal and index
\* paths, the target path reads the final value of the step, also when the
\* source of a move is an ancestor of the target or an earlier index of the
\* same array
TargetReadBack ==
    \A n \in 1..Len(hist) :
        (hist[n].outcome = "applied" /\ PlainPaths(hist[n]))
            => hist[n].readback = hist[n].value

----------------------------------------------------------------------------
(* C27 *)

\* the locations of a tree, as sequences of keys
RECURSIVE AllPaths(_)
AllPaths(tree) ==
    IF tree.t \notin {"obj", "arr"} THEN {<<>>}
    ELSE {<<>>} \cup UNION {{<<k>> \o q : q \in AllPaths(tree.o[k])} : k \in DOMAIN tree.o}

\* what a location reads without its content: a scalar itself, a container
\* as its kind and length, nothing as undefined
Shallow(tree, keys) ==
    LET sub == TreeAt(tree, keys)
    IN IF sub = Missing THEN Undef
       ELSE IF sub.t \in {"obj", "arr"} THEN [t |-> sub.t, len |-> sub.len]
       ELSE sub

\* the keys of the location a path without wildcards names
PathKeys(path) == PrefixKeys(parsePath(path), Len(parsePath(path)))

\* neither location is inside the other
Apart(a, b) == ~IsPrefix(a, b) /\ ~IsPrefix(b, a)

\* the locations the step of hist entry e may change: its target and, when
\* it moves, its source, or the whole array its source is spliced from
Touched(e) ==
    {PathKeys(plugins[e.step].target)} \cup
    (IF ~AppliedMove(e) THEN {}
     ELSE IF IndexSource(e)
          THEN {SubSeq(PathKeys(plugins[e.step].source), 1,
                       Len(PathKeys(plugins[e.step].source)) - 1)}
          ELSE {PathKeys(plugins[e.step].source)})

\* C27: an applied step changes the working document only at its target
\* path and, when it moves, at its source path: every location apart from
\* them reads the same before and after the step
StepFrame ==
    \A n \in 1..Len(hist) :
        ( /\ hist[n].outcome = "applied"
          /\ PlainPaths(hist[n])
          /\ hist[n].pre.t \in {"obj", "arr"}
          /\ \A path \in {plugins[hist[n].step].source, plugins[hist[n].step].target} :
                path \in DOMAIN hist[n].pre.o => PathKeys(path) = <<path>> )
        => \A loc \in AllPaths(hist[n].pre) \cup AllPaths(hist[n].post) :
              (\A t \in Touched(hist[n]) : Apart(loc, t))
                  => Shallow(hist[n].post, loc) = Shallow(hist[n].pre, loc)

----------------------------------------------------------------------------
(* C28 *)

\* the path ends in a dotted numeric segment that names an element of an
\* array the segments before it lead to
DottedElement(doc, path) ==
    LET parts == parsePath(path)
    IN /\ doc.t \in {"obj", "arr"}
       /\ path \notin DOMAIN doc.o
       /\ Len(parts) > 1
       /\ ~isArrayIndex(parts[Len(parts)])
       /\ KeyIndex(parts[Len(parts)]) # NaN
       /\ Descend(doc, parts, 1, Len(parts) - 1) # Missing
       /\ Descend(doc, parts, 1, Len(parts) - 1).t = "arr"
       /\ KeyIndex(parts[Len(parts)]) < Descend(doc, parts, 1, Len(parts) - 1).len

----------------------------------------------------------------------------
(* C29 *)

\* the location the reader resolved the source value of hist entry e from:
\* the key equal to the whole path when the document owns it, the location
\* the segments name otherwise
ReadFrom(e) ==
    IF e.pre.t \in {"obj", "arr"} /\ plugins[e.step].source \in DOMAIN e.pre.o
    THEN <<plugins[e.step].source>>
    ELSE PathKeys(plugins[e.step].source)

\* the locations a removal at the place the reader read from may change:
\* that place, or the array it is spliced from
RemovedAt(e) ==
    IF ReadFrom(e) = PathKeys(plugins[e.step].source) /\ IndexSource(e)
    THEN SubSeq(ReadFrom(e), 1, Len(ReadFrom(e)) - 1)
    ELSE ReadFrom(e)

\* C29: what a move removes is what the reader read: the removal changes
\* the written document nowhere else, and a source path the document owns as
\* a key is removed as that key
RemoverAgreesWithReader ==
    \A n \in 1..Len(hist) :
        ( /\ AppliedMove(hist[n])
          /\ NoWildcard(plugins[hist[n].step].source)
          /\ Len(parsePath(plugins[hist[n].step].source)) > 0 )
        => /\ \A loc \in AllPaths(hist[n].written) :
                 Apart(loc, RemovedAt(hist[n]))
                    => Shallow(hist[n].updated, loc) = Shallow(hist[n].written, loc)
           /\ ( /\ ReadFrom(hist[n]) = <<plugins[hist[n].step].source>>
                /\ hist[n].written.t = "obj"
                /\ plugins[hist[n].step].source \in DOMAIN hist[n].written.o )
                 => plugins[hist[n].step].source \notin DOMAIN hist[n].updated.o

----------------------------------------------------------------------------
(* C30 *)

\* C30: after each applied step the working document, whose top-level keys
\* were deleted and assigned again in place, is deep-equal to the updated
\* document the step computed (copy, target write, source removal), whatever
\* the shape of the root
InPlaceEqualsFold ==
    \A n \in 1..Len(hist) :
        hist[n].outcome = "applied" => hist[n].post = hist[n].updated

============================================================================
